---- MODULE Spec2Model ----
(***************************************************************************)
(* Model of the summarizer Lambda (aws/lambda/summarizer/main.go):         *)
(* CSV validation, transactional batch insert, per-account aggregation     *)
(* and the hand-off of the summaries to the notification Lambda.           *)
(*                                                                         *)
(* A string is a tuple of one-character strings, so that strconv.Atoi,     *)
(* the CSV reader's trimming and the SQL string functions are computed     *)
(* character by character.  Amounts are held in hundredths (cents).        *)
(* The table is a bag of rows: SQL gives a table no order of its own.      *)
(***************************************************************************)
EXTENDS Integers, Sequences, FiniteSets, Bags, TLC

\* ------------------------------------------------------------------ bounds

\* data lines per CSV object
MaxLines == 2
\* rows the table holds at most (an object that would exceed it is not offered)
MaxStore == 3
\* S3 records per event
MaxRecords == 2
\* rows of a table the aggregation is tried on
MaxRows == 3
\* lineNum is kept to this many bits; a Go int has 64 and wraps the same way
LineNumBits == 3

\* ----------------------------------------------------------------- strings

Digits == {"0", "1", "2", "3", "4", "5", "6", "7", "8", "9"}

DigitVal(c) ==
    CASE c = "0" -> 0 [] c = "1" -> 1 [] c = "2" -> 2 [] c = "3" -> 3
      [] c = "4" -> 4 [] c = "5" -> 5 [] c = "6" -> 6 [] c = "7" -> 7
      [] c = "8" -> 8 [] c = "9" -> 9

AllDigits(s) == \A i \in 1..Len(s) : s[i] \in Digits

RECURSIVE DecVal(_)
DecVal(s) == IF s = <<>> THEN 0
             ELSE 10 * DecVal(SubSeq(s, 1, Len(s) - 1)) + DigitVal(s[Len(s)])

\* strconv.Atoi: an optional sign, then one or more decimal digits.
Atoi(s) ==
    LET signed == Len(s) > 0 /\ s[1] \in {"+", "-"}
        body   == IF signed THEN Tail(s) ELSE s
    IN  IF Len(body) > 0 /\ AllDigits(body)
        THEN [ok |-> TRUE,
              val |-> IF signed /\ s[1] = "-" THEN 0 - DecVal(body) ELSE DecVal(body)]
        ELSE [ok |-> FALSE, val |-> 0]

RECURSIVE TrimLeft(_)
TrimLeft(s) == IF s # <<>> /\ s[1] = " " THEN TrimLeft(Tail(s)) ELSE s

RECURSIVE TrimRight(_)
TrimRight(s) == IF s # <<>> /\ s[Len(s)] = " "
                THEN TrimRight(SubSeq(s, 1, Len(s) - 1)) ELSE s

\* SQL TRIM(x): both ends.
Trim(s) == TrimRight(TrimLeft(s))

\* SQL x LIKE 'c%'.
LikePrefix(s, c) == s # <<>> /\ s[1] = c

\* SQL REPLACE(x, c, ''): every occurrence of c is removed.
Replace(s, c) == SelectSeq(s, LAMBDA x : x # c)

\* Position of the first "." of s, 0 when there is none.
DotPos(s) == IF \E i \in 1..Len(s) : s[i] = "."
             THEN CHOOSE i \in 1..Len(s) : s[i] = "." /\ \A j \in 1..(i - 1) : s[j] # "."
             ELSE 0

\* SQL CAST(x AS NUMERIC) for plain decimal literals: surrounding blanks, an
\* optional sign, digits with an optional fraction of at most two digits.
\* The value is in hundredths.
CastNumeric(s) ==
    LET t      == Trim(s)
        signed == Len(t) > 0 /\ t[1] \in {"+", "-"}
        body   == IF signed THEN Tail(t) ELSE t
        p      == DotPos(body)
        ip     == IF p = 0 THEN body ELSE SubSeq(body, 1, p - 1)
        fp     == IF p = 0 THEN <<>> ELSE SubSeq(body, p + 1, Len(body))
        fv     == IF Len(fp) = 0 THEN 0
                  ELSE IF Len(fp) = 1 THEN 10 * DecVal(fp) ELSE DecVal(fp)
        mag    == 100 * DecVal(ip) + fv
    IN  IF Len(ip) + Len(fp) > 0 /\ AllDigits(ip) /\ AllDigits(fp) /\ Len(fp) <= 2
        THEN [ok |-> TRUE, val |-> IF signed /\ t[1] = "-" THEN 0 - mag ELSE mag]
        ELSE [ok |-> FALSE, val |-> 0]

\* ------------------------------------------------------------------- dates

DaysIn(y, m) ==
    IF m \in {4, 6, 9, 11} THEN 30
    ELSE IF m = 2
         THEN (IF (y % 4 = 0 /\ y % 100 # 0) \/ y % 400 = 0 THEN 29 ELSE 28)
         ELSE 31

\* The DATE column's input conversion, for ISO text YYYY-MM-DD.
ParseDate(s) ==
    IF /\ Len(s) = 10
       /\ s[5] = "-" /\ s[8] = "-"
       /\ AllDigits(SubSeq(s, 1, 4)) /\ AllDigits(SubSeq(s, 6, 7))
       /\ AllDigits(SubSeq(s, 9, 10))
    THEN LET y == DecVal(SubSeq(s, 1, 4))
             m == DecVal(SubSeq(s, 6, 7))
             d == DecVal(SubSeq(s, 9, 10))
         IN  IF y >= 1 /\ m \in 1..12 /\ d >= 1 /\ d <= DaysIn(y, m)
             THEN [ok |-> TRUE, y |-> y, m |-> m, d |-> d]
             ELSE [ok |-> FALSE, y |-> 0, m |-> 0, d |-> 0]
    ELSE [ok |-> FALSE, y |-> 0, m |-> 0, d |-> 0]

\* TO_CHAR(date, 'FMMonth')
MonthName(m) ==
    CASE m = 1 -> "January" [] m = 2 -> "February" [] m = 3 -> "March"
      [] m = 4 -> "April" [] m = 5 -> "May" [] m = 6 -> "June"
      [] m = 7 -> "July" [] m = 8 -> "August" [] m = 9 -> "September"
      [] m = 10 -> "October" [] m = 11 -> "November" [] m = 12 -> "December"

\* ------------------------------------------------------------------ inputs
\* The text of a CSV object is a sequence of lines.  A line is a record of
\* unquoted fields, a line with a bare quote inside an unquoted field
\* (a"b,c,d,e) or a line that opens a quoted field and does not close it
\* ("a,b,c,d).

Rec(fields) == [kind |-> "rec", fields |-> fields]
BareQuoteLine == [kind |-> "bareq", fields |-> <<>>]
OpenQuoteLine == [kind |-> "openq", fields |-> <<>>]

AcctA == <<"a">>
AcctB == <<"b">>

Jan15_2021 == <<"2", "0", "2", "1", "-", "0", "1", "-", "1", "5">>
Jan20_2021 == <<"2", "0", "2", "1", "-", "0", "1", "-", "2", "0">>
Feb10_2021 == <<"2", "0", "2", "1", "-", "0", "2", "-", "1", "0">>
Jan05_2022 == <<"2", "0", "2", "2", "-", "0", "1", "-", "0", "5">>
Feb30_2021 == <<"2", "0", "2", "1", "-", "0", "2", "-", "3", "0">>

Plus30 == <<"+", "3", "0", ".", "0", "0">>
Minus15 == <<"-", "1", "5", ".", "0", "0">>
\* written with a blank on either side in the file
Plus20Padded == <<" ", "+", "2", "0", ".", "0", "0", " ">>
Unsigned30 == <<"3", "0", ".", "0", "0">>
PlusX == <<"+", "x">>

HeaderLine == Rec(<<  <<"i", "d">>, <<"d", "a", "t", "e">>,
                      <<"t", "x">>, <<"e", "m", "a", "i", "l">>  >>)
ShortHeaderLine == Rec(<<  <<"i", "d">>, <<"d", "a", "t", "e">>, <<"t", "x">>  >>)

\* The data lines an object is made of.
Lines ==
    { Rec(<< <<"1">>, Jan15_2021, Plus30, AcctA >>),
      Rec(<< <<"2">>, Jan20_2021, Minus15, AcctB >>),
      Rec(<< <<"x", "3">>, Jan15_2021, Plus30, AcctA >>),   \* id is no integer
      Rec(<< <<"4">>, Feb30_2021, Plus30, AcctB >>),        \* no such day
      Rec(<< <<"5">>, Feb10_2021, Unsigned30, <<>> >>),     \* no sign, no email
      Rec(<< <<"6">>, Jan15_2021, Plus30 >>),               \* three fields
      BareQuoteLine,
      OpenQuoteLine }

Bodies(n) == UNION { [1..k -> Lines] : k \in 0..n }

\* What the object store can hold under a key: a header and at most n data
\* lines, or no text at all.  Under a header that is not accepted one data
\* line stands for the rest of the text, which is never read.
Objects(n) ==
    { <<HeaderLine>> \o b : b \in Bodies(n) }
        \cup { <<h>> \o b : h \in {ShortHeaderLine, BareQuoteLine},
                              b \in Bodies(IF n > 0 THEN 1 ELSE 0) }
        \cup { <<>> }

\* -------------------------------------------------------------- csv.Reader

HasQuote(line) == line.kind \in {"bareq", "openq"}

\* The first line after position pos that holds a quote, or Len + 1.
NextQuote(lines, pos) ==
    IF \E j \in (pos + 1)..Len(lines) : HasQuote(lines[j])
    THEN CHOOSE j \in (pos + 1)..Len(lines) :
            HasQuote(lines[j]) /\ \A k \in (pos + 1)..(j - 1) : ~HasQuote(lines[k])
    ELSE Len(lines) + 1

\* One reader.Read() with TrimLeadingSpace set: the record, the error, and
\* the reader's position and FieldsPerRecord afterwards.  FieldsPerRecord
\* starts at 0 and is set by the first record; a later record of another
\* length is returned together with ErrFieldCount.  A quoted field that is
\* left open runs on over the next lines up to the next quote, which does not
\* end it properly, or up to the end of the text.
Read(lines, pos, fpr) ==
    IF pos > Len(lines)
    THEN [record |-> <<>>, err |-> "EOF", pos |-> pos, fpr |-> fpr]
    ELSE LET line == lines[pos] IN
         CASE line.kind = "rec" ->
                LET rec == [i \in 1..Len(line.fields) |-> TrimLeft(line.fields[i])]
                    n   == IF fpr = 0 THEN Len(rec) ELSE fpr
                IN  [record |-> rec,
                     err |-> IF Len(rec) # n THEN "ErrFieldCount" ELSE "nil",
                     pos |-> pos + 1, fpr |-> n]
           [] line.kind = "bareq" ->
                [record |-> <<>>, err |-> "ErrBareQuote", pos |-> pos + 1, fpr |-> fpr]
           [] line.kind = "openq" ->
                [record |-> <<>>, err |-> "ErrQuote",
                 pos |-> IF NextQuote(lines, pos) > Len(lines)
                         THEN Len(lines) + 1 ELSE NextQuote(lines, pos) + 1,
                 fpr |-> fpr]

\* Variant: the row loop ends at the first line it cannot read.
RECURSIVE ReadRowsUntilError(_, _, _, _)
ReadRowsUntilError(lines, pos, fpr, rows) ==
    LET r == Read(lines, pos, fpr) IN
    IF r.err # "nil" THEN rows
    ELSE IF Len(r.record) # 4 THEN ReadRowsUntilError(lines, r.pos, r.fpr, rows)
    ELSE ReadRowsUntilError(lines, r.pos, r.fpr, Append(rows, r.record))

\* The row loop of processCSVFile.
RECURSIVE ReadRows(_, _, _, _)
ReadRows(lines, pos, fpr, rows) ==
    LET r == Read(lines, pos, fpr) IN
    IF r.err = "EOF" THEN rows
    ELSE IF r.err # "nil" THEN ReadRows(lines, r.pos, r.fpr, rows)
    ELSE IF Len(r.record) # 4 THEN ReadRows(lines, r.pos, r.fpr, rows)
    ELSE ReadRows(lines, r.pos, r.fpr, Append(rows, r.record))

\* Variant: the header's column count is not checked.
processCSVFileAnyHeader(got, lines) ==
    IF ~got THEN [rows |-> <<>>, err |-> "s3"]
    ELSE LET h == Read(lines, 1, 0) IN
         IF h.err # "nil" THEN [rows |-> <<>>, err |-> "header"]
         ELSE [rows |-> ReadRows(lines, h.pos, h.fpr, <<>>), err |-> "nil"]

\* processCSVFile: the object is fetched (got = FALSE: GetObject fails), the
\* header is read and checked, the rows are collected.
processCSVFile(got, lines) ==
    IF ~got THEN [rows |-> <<>>, err |-> "s3"]
    ELSE LET h == Read(lines, 1, 0) IN
         IF h.err # "nil" THEN [rows |-> <<>>, err |-> "header"]
         ELSE IF Len(h.record) # 4 THEN [rows |-> <<>>, err |-> "header"]
         ELSE [rows |-> ReadRows(lines, h.pos, h.fpr, <<>>), err |-> "nil"]

\* ------------------------------------------------------ insertTransactions

\* The row as the table holds it: external_id INTEGER, date DATE,
\* transaction TEXT and email TEXT, the two texts as given.
StoredRow(externalID, date, transaction, email) ==
    [external_id |-> externalID, y |-> ParseDate(date).y, m |-> ParseDate(date).m,
     d |-> ParseDate(date).d, transaction |-> transaction, email |-> email]

\* stmt.Exec: the store refuses a date it cannot read; refused = TRUE is any
\* other refusal (a constraint of the table, a lost connection).
ExecFails(date, refused) == refused \/ ~ParseDate(date).ok

\* Variant: emailSet holds the email of the last row only.
RECURSIVE InsertLoopLastEmail(_, _, _, _, _)
InsertLoopLastEmail(transactions, i, failAt, pending, emailSet) ==
    IF i > Len(transactions)
    THEN [pending |-> pending, emailSet |-> emailSet, err |-> "nil", row |-> 0]
    ELSE LET row == transactions[i] IN
         IF Len(row) # 4
         THEN [pending |-> pending, emailSet |-> {}, err |-> "columns", row |-> i]
         ELSE IF ~Atoi(row[1]).ok
         THEN [pending |-> pending, emailSet |-> {}, err |-> "id", row |-> i]
         ELSE IF ExecFails(row[2], i = failAt)
         THEN [pending |-> pending, emailSet |-> {}, err |-> "insert", row |-> i]
         ELSE InsertLoopLastEmail(transactions, i + 1, failAt,
                         Append(pending,
                                StoredRow(Atoi(row[1]).val, row[2], row[3], row[4])),
                         {row[4]})

\* The loop of insertTransactions from row i on.  failAt is the number of the
\* row whose insert the store refuses for a reason of its own (0: none).
\* pending are the rows inserted so far in the open transaction.
RECURSIVE InsertLoop(_, _, _, _, _)
InsertLoop(transactions, i, failAt, pending, emailSet) ==
    IF i > Len(transactions)
    THEN [pending |-> pending, emailSet |-> emailSet, err |-> "nil", row |-> 0]
    ELSE LET row == transactions[i] IN
         IF Len(row) # 4
         THEN [pending |-> pending, emailSet |-> {}, err |-> "columns", row |-> i]
         ELSE IF ~Atoi(row[1]).ok
         THEN [pending |-> pending, emailSet |-> {}, err |-> "id", row |-> i]
         ELSE IF ExecFails(row[2], i = failAt)
         THEN [pending |-> pending, emailSet |-> {}, err |-> "insert", row |-> i]
         ELSE InsertLoop(transactions, i + 1, failAt,
                         Append(pending,
                                StoredRow(Atoi(row[1]).val, row[2], row[3], row[4])),
                         emailSet \cup {row[4]})

\* insertTransactions(tx, transactions); prepared = FALSE: tx.Prepare fails.
insertTransactions(transactions, prepared, failAt) ==
    IF ~prepared
    THEN [pending |-> <<>>, emailSet |-> {}, err |-> "prepare", row |-> 0]
    ELSE InsertLoop(transactions, 1, failAt, <<>>, {})

\* The rows as a bag, for the table.
RECURSIVE BagOf(_)
BagOf(seq) == IF seq = <<>> THEN EmptyBag
              ELSE SetToBag({Head(seq)}) (+) BagOf(Tail(seq))

\* The rows of a table, each as often as the table holds it, in some order.
RECURSIVE Scan(_)
Scan(table) ==
    IF DOMAIN table = {} THEN <<>>
    ELSE LET r == CHOOSE x \in DOMAIN table : TRUE
         IN  <<r>> \o Scan(table (-) SetToBag({r}))

\* ------------------------------------------- getTransactionSummaryByEmail

RECURSIVE Gcd(_, _)
Gcd(a, b) == IF b = 0 THEN a ELSE Gcd(b, a % b)

Abs(x) == IF x < 0 THEN 0 - x ELSE x

\* The exact quotient n / d (d > 0) in lowest terms.
Frac(n, d) == LET g == Gcd(Abs(n), d) IN [num |-> n \div g, den |-> d \div g]

Zero == Frac(0, 1)

Neg(q) == [num |-> 0 - q.num, den |-> q.den]

\* sql.NullFloat64
Null == [Valid |-> FALSE, Float64 |-> Zero]
NotNull(q) == [Valid |-> TRUE, Float64 |-> q]

RECURSIVE SumSeq(_)
SumSeq(s) == IF s = <<>> THEN 0 ELSE s[1] + SumSeq(Tail(s))

\* AVG over the values that are not NULL; NULL when there is none.
Avg(vals) == IF vals = <<>> THEN Null ELSE NotNull(Frac(SumSeq(vals), Len(vals)))

\* Variant: GROUP BY TO_CHAR(date, 'FMMonth') alone, the year dropped.
MonthOfNameOnly(r) == <<0, r.m>>

\* DATE_TRUNC('month', date)
MonthOf(r) == <<r.y, r.m>>

Earlier(a, b) == a[1] < b[1] \/ (a[1] = b[1] /\ a[2] < b[2])

\* ORDER BY DATE_TRUNC('month', date)
RECURSIVE Ordered(_)
Ordered(S) ==
    IF S = {} THEN <<>>
    ELSE LET first == CHOOSE a \in S : \A b \in S \ {a} : Earlier(a, b)
         IN  <<first>> \o Ordered(S \ {first})

\* The amounts the first AVG takes: rows LIKE '+%', the '+' removed, cast.
CreditTexts(rows) ==
    LET plus == SelectSeq(rows, LAMBDA r : LikePrefix(Trim(r.transaction), "+"))
    IN  [i \in 1..Len(plus) |-> Replace(Trim(plus[i].transaction), "+")]

\* The amounts the second AVG takes: rows LIKE '-%', the '-' removed, cast.
DebitTexts(rows) ==
    LET minus == SelectSeq(rows, LAMBDA r : LikePrefix(Trim(r.transaction), "-"))
    IN  [i \in 1..Len(minus) |-> Replace(Trim(minus[i].transaction), "-")]

\* The amounts SUM takes.
BalanceTexts(rows) == [i \in 1..Len(rows) |-> Trim(rows[i].transaction)]

CastAll(texts) == [i \in 1..Len(texts) |-> CastNumeric(texts[i]).val]

AllCast(texts) == \A i \in 1..Len(texts) : CastNumeric(texts[i]).ok

\* One row of the query's result: the group of the account's rows of month k.
GroupRow(rows, k) ==
    LET g == SelectSeq(rows, LAMBDA r : MonthOf(r) = k)
    IN  [month |-> MonthName(k[2]),
         num_transactions |-> Len(g),
         avg_credit |-> Avg(CastAll(CreditTexts(g))),
         avg_debit |-> Avg(CastAll(DebitTexts(g))),
         balance |-> NotNull(Frac(SumSeq(CastAll(BalanceTexts(g))), 1))]

\* The query: the rows of the account, grouped by month of the calendar,
\* oldest month first.  A text that is no number fails the whole query.
Query(table, email) ==
    LET rows == SelectSeq(Scan(table), LAMBDA r : r.email = email)
        keys == Ordered({MonthOf(rows[i]) : i \in 1..Len(rows)})
    IN  IF \/ ~AllCast(CreditTexts(rows))
           \/ ~AllCast(DebitTexts(rows))
           \/ ~AllCast(BalanceTexts(rows))
        THEN [err |-> "query", rows |-> <<>>]
        ELSE [err |-> "nil", rows |-> [i \in 1..Len(keys) |-> GroupRow(rows, keys[i])]]

\* Variant: the average of the debits is stored as the query returns it.
MonthlyOfUnsigned(row) ==
    [Month |-> row.month,
     TransactionCount |-> row.num_transactions,
     AverageCredit |-> IF row.avg_credit.Valid THEN row.avg_credit.Float64 ELSE Zero,
     AverageDebit |-> IF row.avg_debit.Valid THEN row.avg_debit.Float64 ELSE Zero]

\* The MonthlySummary made of one scanned row: a float64 left unset is 0.
MonthlyOf(row) ==
    [Month |-> row.month,
     TransactionCount |-> row.num_transactions,
     AverageCredit |-> IF row.avg_credit.Valid THEN row.avg_credit.Float64 ELSE Zero,
     AverageDebit |-> IF row.avg_debit.Valid THEN Neg(row.avg_debit.Float64) ELSE Zero]

\* Variant: totalBalance = balance.Float64, the last row's balance.
TotalOfLast(rows) ==
    IF rows = <<>> THEN 0
    ELSE IF rows[Len(rows)].balance.Valid THEN rows[Len(rows)].balance.Float64.num ELSE 0

\* totalBalance += balance.Float64 over the scanned rows (hundredths).
RECURSIVE TotalOf(_)
TotalOf(rows) ==
    IF rows = <<>> THEN 0
    ELSE (IF rows[1].balance.Valid THEN rows[1].balance.Float64.num ELSE 0)
            + TotalOf(Tail(rows))

\* getTransactionSummaryByEmail(db, email); answered = FALSE: the store does
\* not answer the query.
getTransactionSummaryByEmail(table, email, answered) ==
    LET q == Query(table, email) IN
    IF ~answered \/ q.err # "nil"
    THEN [err |-> "query", summary |-> <<>>]
    ELSE [err |-> "nil",
          summary |-> [Email |-> email,
                       TotalBalance |-> TotalOf(q.rows),
                       MonthlySummaries |-> [i \in 1..Len(q.rows) |-> MonthlyOf(q.rows[i])]]]

\* ------------------------------------------------- invokeNotificationLambda

\* json.Marshal of the summaries under the struct tags.
MarshalMonthly(m) ==
    [month |-> m.Month, transaction_count |-> m.TransactionCount,
     average_credit |-> m.AverageCredit, average_debit |-> m.AverageDebit]

MarshalSummary(a) ==
    [email |-> a.Email, total_balance |-> a.TotalBalance,
     monthly_summaries |->
        [i \in 1..Len(a.MonthlySummaries) |-> MarshalMonthly(a.MonthlySummaries[i])]]

Marshal(sums) == [summaries |-> [i \in 1..Len(sums) |-> MarshalSummary(sums[i])]]

\* ------------------------------------------------------------------- state

VARIABLES
    store,      \* the committed rows of table transacciones, a bag
    dbOnce,     \* dbOnce has run
    db,         \* the package's db: "nil", "unpinged" (opened, never pinged well), "ok"
    pc,         \* where the handler stands
    records,    \* records of the event taken up so far
    lines,      \* the lines of the current object that the reader was given
    rows,       \* what processCSVFile returned for it
    pending,    \* rows inserted in the open transaction, not committed
    emailSet,   \* what insertTransactions returned
    todo,       \* emails of emailSet the range loop has not reached
    summaries,  \* the handler's summaries
    ret,        \* what the handler returned: "none" (running), "nil", "err", "panic"
    invoked,    \* calls of lambdaClient.Invoke by this invocation
    payload,    \* the payload of the last such call
    store0,     \* the table when the current record was taken up
    sums0,      \* the length of summaries at that moment
    began,      \* db.Begin() was called for the current record
    called,     \* emails getTransactionSummaryByEmail was called with, current record
    failed,     \* those of them for which it returned an error
    cause,      \* the step that made the handler return an error
    pos,        \* the line the reader of processCSVFile stands before
    fpr,        \* its FieldsPerRecord
    lineNum,    \* lineNum of the row loop
    body        \* obj.Body: "none", "open", "failed" (every Read returns an error)

vars == <<store, dbOnce, db, pc, records, lines, rows, pending, emailSet, todo,
          summaries, ret, invoked, payload, store0, sums0, began, called, failed,
          cause, pos, fpr, lineNum, body>>

reader == <<pos, fpr, lineNum, body>>
conn == <<dbOnce, db>>
batch == <<lines, rows, pending, emailSet, todo, store0, sums0, began, called, failed>>
out == <<summaries, invoked, payload>>

NoPayload == [summaries |-> <<>>]

Init ==
    /\ store = EmptyBag
    /\ dbOnce = FALSE
    /\ db = "nil"
    /\ pc = "idle"
    /\ records = 0
    /\ lines = <<>>
    /\ rows = <<>>
    /\ pending = <<>>
    /\ emailSet = {}
    /\ todo = {}
    /\ summaries = <<>>
    /\ ret = "none"
    /\ invoked = 0
    /\ payload = NoPayload
    /\ store0 = EmptyBag
    /\ sums0 = 0
    /\ began = FALSE
    /\ called = <<>>
    /\ failed = {}
    /\ cause = "none"
    /\ pos = 0
    /\ fpr = 0
    /\ lineNum = 0
    /\ body = "none"

\* return err
Fail(why) ==
    /\ pc' = "done"
    /\ ret' = "err"
    /\ cause' = why

\* ----------------------------------------------------------------- handler

\* The runtime calls handler with an event.  How many records the event
\* holds shows when the range over them goes on or ends.
Invoke ==
    /\ pc = "idle"
    /\ pc' = "getdb"
    /\ UNCHANGED <<store, conn, records, batch, out, ret, cause>>
    /\ UNCHANGED reader

\* getDBConnection: the first call opens and pings; err is the local of the
\* call, so a later call returns the package's db with a nil error.
getDBConnection(opened, pinged) ==
    IF dbOnce
    THEN [db |-> db, err |-> "nil"]
    ELSE IF ~opened THEN [db |-> "nil", err |-> "open"]
    ELSE IF ~pinged THEN [db |-> "unpinged", err |-> "ping"]
    ELSE [db |-> "ok", err |-> "nil"]

GetDB ==
    /\ pc = "getdb"
    /\ \E opened, pinged \in BOOLEAN :
         LET r == getDBConnection(opened, pinged) IN
         /\ dbOnce' = TRUE
         /\ db' = r.db
         /\ IF r.err # "nil"
            THEN Fail("db")
            ELSE pc' = "record" /\ UNCHANGED <<ret, cause>>
    /\ UNCHANGED <<store, records, batch, out>>
    /\ UNCHANGED reader

Min(a, b) == IF a < b THEN a ELSE b

\* Objects(n) for every n in use, computed once.
ObjectSets == [n \in 0..MaxLines |-> Objects(n)]

\* The next record of the event: processCSVFile on its object.  When
\* GetObject fails there is no text; after a header that is not accepted no
\* further line is read.
ProcessCSV ==
    /\ pc = "record"
    /\ records < MaxRecords
    /\ records' = records + 1
    /\ \E got \in BOOLEAN :
       \E text \in IF got THEN ObjectSets[Min(MaxLines, MaxStore - BagCardinality(store))]
                         ELSE {<<>>} :
         LET r == processCSVFile(got, text) IN
         /\ rows' = r.rows
         /\ IF r.err # "nil"
            THEN lines' = SubSeq(text, 1, Min(1, Len(text))) /\ Fail(r.err)
            ELSE lines' = text /\ pc' = "begin" /\ UNCHANGED <<ret, cause>>
    /\ pending' = <<>>
    /\ emailSet' = {}
    /\ todo' = {}
    /\ store0' = store
    /\ sums0' = Len(summaries)
    /\ began' = FALSE
    /\ called' = <<>>
    /\ failed' = {}
    /\ UNCHANGED <<store, conn, out>>
    /\ UNCHANGED reader

\* db.Begin(); a nil db is dereferenced.
Begin ==
    /\ pc = "begin"
    /\ began' = TRUE
    /\ IF db = "nil"
       THEN pc' = "done" /\ ret' = "panic" /\ cause' = "begin"
       ELSE \E ok \in BOOLEAN :
              IF ok THEN pc' = "insert" /\ UNCHANGED <<ret, cause>>
              ELSE Fail("begin")
    /\ UNCHANGED <<store, conn, records, lines, rows, pending, emailSet, todo,
                   store0, sums0, called, failed, out>>
    /\ UNCHANGED reader

\* insertTransactions(tx, rows)
Insert ==
    /\ pc = "insert"
    /\ \E prepared \in BOOLEAN, failAt \in 0..Len(rows) :
         LET r == insertTransactions(rows, prepared, failAt) IN
         /\ pending' = r.pending
         /\ emailSet' = r.emailSet
         /\ IF r.err # "nil"
            THEN pc' = "rollback" /\ cause' = r.err
            ELSE pc' = "commit" /\ UNCHANGED cause
    /\ UNCHANGED <<store, conn, records, lines, rows, todo, store0, sums0, began, called,
                   failed, out, ret>>
    /\ UNCHANGED reader

\* Variant: the rows inserted before the failing one stay in the table.
RollbackKeeps ==
    /\ pc = "rollback"
    /\ store' = store (+) BagOf(pending)
    /\ pending' = <<>>
    /\ pc' = "done"
    /\ ret' = "err"
    /\ UNCHANGED <<conn, records, lines, rows, emailSet, todo, store0, sums0, began,
                   called, failed, out, cause>>
    /\ UNCHANGED reader

\* tx.Rollback(); return err
Rollback ==
    /\ pc = "rollback"
    /\ pending' = <<>>
    /\ pc' = "done"
    /\ ret' = "err"
    /\ UNCHANGED <<store, conn, records, lines, rows, emailSet, todo, store0, sums0, began,
                   called, failed, out, cause>>
    /\ UNCHANGED reader

\* tx.Commit(): the pending rows enter the table together, or none does.
Commit ==
    /\ pc = "commit"
    /\ pending' = <<>>
    /\ \E ok \in BOOLEAN :
         IF ok
         THEN /\ store' = store (+) BagOf(pending)
              /\ todo' = emailSet
              /\ pc' = "summarize"
              /\ UNCHANGED <<ret, cause>>
         ELSE /\ Fail("commit")
              /\ UNCHANGED <<store, todo>>
    /\ UNCHANGED <<conn, records, lines, rows, emailSet, store0, sums0, began, called,
                   failed, out>>
    /\ UNCHANGED reader

\* Variant: an account whose summary fails ends the run with its error.
SummarizeAborts ==
    /\ pc = "summarize"
    /\ \E email \in todo, answered \in BOOLEAN :
         LET r == getTransactionSummaryByEmail(store, email, answered) IN
         /\ todo' = todo \ {email}
         /\ called' = Append(called, email)
         /\ IF r.err # "nil"
            THEN failed' = failed \cup {email} /\ Fail("query") /\ UNCHANGED summaries
            ELSE /\ summaries' = Append(summaries, r.summary)
                 /\ UNCHANGED <<failed, pc, ret, cause>>
    /\ UNCHANGED <<store, conn, records, lines, rows, pending, emailSet, store0,
                   sums0, began, invoked, payload>>
    /\ UNCHANGED reader

\* One turn of the range over emailSet, in any order.
Summarize ==
    /\ pc = "summarize"
    /\ \E email \in todo, answered \in BOOLEAN :
         LET r == getTransactionSummaryByEmail(store, email, answered) IN
         /\ todo' = todo \ {email}
         /\ called' = Append(called, email)
         /\ IF r.err # "nil"
            THEN failed' = failed \cup {email} /\ UNCHANGED summaries
            ELSE summaries' = Append(summaries, r.summary) /\ UNCHANGED failed
    /\ UNCHANGED <<store, conn, pc, records, lines, rows, pending, emailSet, store0,
                   sums0, began, invoked, payload, ret, cause>>
    /\ UNCHANGED reader

\* Variant: the summaries are handed over after every record.
NextRecordNotifies ==
    /\ pc = "summarize"
    /\ todo = {}
    /\ pc' = "record"
    /\ invoked' = invoked + 1
    /\ payload' = Marshal(summaries)
    /\ UNCHANGED <<store, conn, records, batch, summaries, ret, cause>>
    /\ UNCHANGED reader

\* The range is over: on to the next record of the event.
NextRecord ==
    /\ pc = "summarize"
    /\ todo = {}
    /\ pc' = "record"
    /\ UNCHANGED <<store, conn, records, batch, out, ret, cause>>
    /\ UNCHANGED reader

\* The event holds no more records: invokeNotificationLambda.
Notify ==
    /\ pc = "record"
    /\ invoked' = invoked + 1
    /\ payload' = Marshal(summaries)
    /\ \E ok \in BOOLEAN :
         IF ok THEN pc' = "done" /\ ret' = "nil" /\ UNCHANGED cause
         ELSE Fail("notify")
    /\ UNCHANGED <<store, conn, records, batch, summaries>>
    /\ UNCHANGED reader

\* The handler has returned; the process waits for the next event, or the
\* runtime starts a new process (cold = TRUE), whose db is not initialised.
Return(cold) ==
    /\ pc = "done"
    /\ pc' = "idle"
    /\ dbOnce' = (IF cold THEN FALSE ELSE dbOnce)
    /\ db' = (IF cold THEN "nil" ELSE db)
    /\ records' = 0
    /\ lines' = <<>>
    /\ rows' = <<>>
    /\ pending' = <<>>
    /\ emailSet' = {}
    /\ todo' = {}
    /\ summaries' = <<>>
    /\ ret' = "none"
    /\ invoked' = 0
    /\ payload' = NoPayload
    /\ store0' = EmptyBag
    /\ sums0' = 0
    /\ began' = FALSE
    /\ called' = <<>>
    /\ failed' = {}
    /\ cause' = "none"
    /\ UNCHANGED store
    /\ UNCHANGED reader

Next ==
    \/ Invoke
    \/ GetDB
    \/ ProcessCSV
    \/ Begin
    \/ Insert
    \/ Rollback
    \/ Commit
    \/ Summarize
    \/ NextRecord
    \/ Notify
    \/ \E cold \in BOOLEAN : Return(cold)

Spec == Init /\ [][Next]_vars

\* -------------------------------------------- the aggregation on its own
\* getTransactionSummaryByEmail reads the table and nothing else.  Here it
\* is applied to every table of at most MaxRows rows drawn from SummaryRows,
\* for every account, the way the handler's range calls it.

Plus050 == <<"+", "0", ".", "5">>

RowJanPlus30 == StoredRow(1, Jan15_2021, TrimLeft(Plus30), AcctA)
RowJanMinus15 == StoredRow(2, Jan20_2021, TrimLeft(Minus15), AcctA)
RowFebPlus20 == StoredRow(3, Feb10_2021, TrimLeft(Plus20Padded), AcctA)
RowJan22Plus30 == StoredRow(4, Jan05_2022, TrimLeft(Plus30), AcctA)
RowJanPlus050 == StoredRow(5, Jan20_2021, TrimLeft(Plus050), AcctA)
RowBJanMinus15 == StoredRow(6, Jan15_2021, TrimLeft(Minus15), AcctB)
RowBFebPlusX == StoredRow(7, Feb10_2021, TrimLeft(PlusX), AcctB)
RowNoneFebUnsigned == StoredRow(8, Feb10_2021, TrimLeft(Unsigned30), <<>>)

SummaryRows ==
    { RowJanPlus30, RowJanMinus15, RowFebPlus20, RowJan22Plus30, RowJanPlus050,
      RowBJanMinus15, RowBFebPlusX, RowNoneFebUnsigned }

Accounts == {AcctA, AcctB, <<>>}

Tables(n) == { BagOf(t) : t \in UNION { [1..k -> SummaryRows] : k \in 0..n } }

InitSummary ==
    /\ store \in Tables(MaxRows)
    /\ dbOnce = TRUE
    /\ db = "ok"
    /\ pc = "summarize"
    /\ records = 1
    /\ lines = <<HeaderLine>>
    /\ rows = <<>>
    /\ pending = <<>>
    /\ emailSet = Accounts
    /\ todo = Accounts
    /\ summaries = <<>>
    /\ ret = "none"
    /\ invoked = 0
    /\ payload = NoPayload
    /\ store0 = EmptyBag
    /\ sums0 = 0
    /\ began = TRUE
    /\ called = <<>>
    /\ failed = {}
    /\ cause = "none"
    /\ pos = 0
    /\ fpr = 0
    /\ lineNum = 0
    /\ body = "none"

NextSummary == Summarize

SpecSummary == InitSummary /\ [][NextSummary]_vars

\* ------------------------------------------------ the row loop, read by read
\* processCSVFile's loop taken one reader.Read() at a time, over a body that
\* may fail.  A Read of obj.Body may return an error other than io.EOF at
\* any time; the line the reader was in is lost with it or not; afterwards
\* the body answers again, or, as the body of an HTTP response does, returns
\* the error to every further Read.  csv.Reader hands the error on and keeps
\* none of it.

ReadRow ==
    /\ pc = "read"
    /\ lineNum' = (lineNum + 1) % (2 ^ LineNumBits)
    /\ \E fault \in {"none", "once", "for good"}, lost \in BOOLEAN :
         IF body = "failed" \/ fault # "none"
         THEN \* err is neither nil nor io.EOF: log.Printf, continue
              /\ body' = IF body = "failed" \/ fault = "for good"
                         THEN "failed" ELSE "open"
              /\ pos' = IF body = "open" /\ lost /\ pos <= Len(lines)
                        THEN pos + 1 ELSE pos
              /\ UNCHANGED <<fpr, rows, pc>>
         ELSE LET r == Read(lines, pos, fpr) IN
              /\ pos' = r.pos
              /\ fpr' = r.fpr
              /\ UNCHANGED body
              /\ IF r.err = "EOF" THEN pc' = "begin" /\ UNCHANGED rows
                 ELSE IF r.err # "nil" THEN UNCHANGED <<rows, pc>>
                 ELSE IF Len(r.record) # 4 THEN UNCHANGED <<rows, pc>>
                 ELSE rows' = Append(rows, r.record) /\ UNCHANGED pc
    /\ UNCHANGED <<store, conn, records, lines, pending, emailSet, todo, store0,
                   sums0, began, called, failed, out, ret, cause>>

\* The header of the object has been read and accepted.
InitReader ==
    /\ lines \in { o \in Objects(MaxLines) : processCSVFile(TRUE, o).err = "nil" }
    /\ pos = Read(lines, 1, 0).pos
    /\ fpr = Read(lines, 1, 0).fpr
    /\ lineNum = 1
    /\ body = "open"
    /\ rows = <<>>
    /\ pc = "read"
    /\ records = 1
    /\ store = EmptyBag
    /\ dbOnce = TRUE
    /\ db = "ok"
    /\ pending = <<>>
    /\ emailSet = {}
    /\ todo = {}
    /\ summaries = <<>>
    /\ ret = "none"
    /\ invoked = 0
    /\ payload = NoPayload
    /\ store0 = EmptyBag
    /\ sums0 = 0
    /\ began = FALSE
    /\ called = <<>>
    /\ failed = {}
    /\ cause = "none"

NextReader == ReadRow

\* The goroutine that runs the loop keeps running: a turn that can be taken
\* is taken.
SpecReader == InitReader /\ [][NextReader]_vars /\ WF_vars(ReadRow)

\* ------------------------------------------------- what the claims speak of

\* The distinct rows of an account, and those of one month of one year.
AccountRows(table, email) == { r \in DOMAIN table : r.email = email }

InMonth(table, email, k) == { r \in AccountRows(table, email) : r.y = k[1] /\ r.m = k[2] }

Months(table, email) == { <<r.y, r.m>> : r \in AccountRows(table, email) }

Before(a, b) == 12 * a[1] + a[2] < 12 * b[1] + b[2]

\* The j-th month of S by the calendar.
NthMonth(S, j) == CHOOSE k \in S : Cardinality({ x \in S : Before(x, k) }) = j - 1

\* The sign a stored amount is written with, and its value in hundredths.
SignChar(r) == IF Trim(r.transaction) = <<>> THEN "" ELSE Trim(r.transaction)[1]

Amount(r) == CastNumeric(r.transaction).val

Credits(S) == { r \in S : SignChar(r) = "+" }
Debits(S) == { r \in S : SignChar(r) = "-" }

\* How many records the rows S stand for in the table, and their amounts' sum.
RECURSIVE CountIn(_, _)
CountIn(S, table) ==
    IF S = {} THEN 0
    ELSE LET r == CHOOSE x \in S : TRUE IN table[r] + CountIn(S \ {r}, table)

RECURSIVE AmountIn(_, _)
AmountIn(S, table) ==
    IF S = {} THEN 0
    ELSE LET r == CHOOSE x \in S : TRUE
         IN  table[r] * Amount(r) + AmountIn(S \ {r}, table)

\* q is the mean of the amounts of the rows S.
IsMeanOf(q, S, table) == q.num * CountIn(S, table) = q.den * AmountIn(S, table)

\* The sum of the balances of the months K of an account.
RECURSIVE Subtotals(_, _, _)
Subtotals(K, table, email) ==
    IF K = {} THEN 0
    ELSE LET k == CHOOSE x \in K : TRUE
         IN  AmountIn(InMonth(table, email, k), table) + Subtotals(K \ {k}, table, email)

ExampleTable == BagOf(<<RowJanPlus30, RowJanMinus15, RowFebPlus20>>)

\* C3: every monthly entry of a summary reports the number of records of its
\* month, the mean of the '+' amounts as a number >= 0 and the mean of the
\* '-' amounts as a number <= 0.
C3_MonthlyFigures ==
    \A i \in DOMAIN summaries :
        LET s == summaries[i]
            K == Months(store, s.Email)
        IN  \A j \in DOMAIN s.MonthlySummaries :
                /\ j <= Cardinality(K)
                /\ LET g == InMonth(store, s.Email, NthMonth(K, j))
                       m == s.MonthlySummaries[j]
                   IN  /\ m.TransactionCount = CountIn(g, store)
                       /\ Credits(g) # {} =>
                            /\ IsMeanOf(m.AverageCredit, Credits(g), store)
                            /\ m.AverageCredit.num >= 0
                       /\ Debits(g) # {} =>
                            /\ IsMeanOf(m.AverageDebit, Debits(g), store)
                            /\ m.AverageDebit.num <= 0

\* [+30.00 Jan, -15.00 Jan, +20.00 Feb]: January has 2 records, 30.00, -15.00.
C3_Witness ==
    /\ store = ExampleTable
    /\ \E i \in DOMAIN summaries :
         /\ summaries[i].Email = AcctA
         /\ summaries[i].MonthlySummaries[1] =
              [Month |-> "January", TransactionCount |-> 2,
               AverageCredit |-> [num |-> 3000, den |-> 1],
               AverageDebit |-> [num |-> -1500, den |-> 1]]

\* C4 as claimed: a month without '-' records has an averageDebit that is not
\* the number 0, and a month without '+' records an averageCredit that is not 0.
C4_AbsentIsNotZero ==
    \A i \in DOMAIN summaries :
        LET s == summaries[i]
            K == Months(store, s.Email)
        IN  \A j \in DOMAIN s.MonthlySummaries :
                LET g == InMonth(store, s.Email, NthMonth(K, j))
                    m == MarshalMonthly(s.MonthlySummaries[j])
                IN  /\ Debits(g) = {} => m.average_debit # Zero
                    /\ Credits(g) = {} => m.average_credit # Zero

Range(seq) == { seq[i] : i \in DOMAIN seq }

\* The row of the table a validated row becomes.
AsStored(row) == StoredRow(Atoi(row[1]).val, row[2], row[3], row[4])

StoredAll(rs) == BagOf([i \in DOMAIN rs |-> AsStored(rs[i])])

\* The range over the emails of the current record is over.
LoopDone ==
    /\ records > 0
    /\ pc = "record" \/ (pc = "done" /\ cause \in {"none", "notify"})

\* The rows of the current record are committed.
Committed == records > 0 /\ (pc = "summarize" \/ LoopDone)

\* The summaries the current record added.
ThisRecord == SubSeq(summaries, sums0 + 1, Len(summaries))

\* C1: until the commit the table is as it was when the record was taken
\* up, it is so again after a row has failed, and when it differs it holds
\* every row of the batch on top of what it held.
C1_AllOrNothing ==
    records > 0 =>
        /\ pc \in {"begin", "insert", "rollback", "commit"} => store = store0
        /\ pc = "done" /\ cause \in {"prepare", "columns", "id", "insert"} => store = store0
        /\ store # store0 => Committed /\ store = store0 (+) StoredAll(rows)

\* The second row has no integer id; the first was inserted before it.
C1_Witness ==
    /\ pc = "done"
    /\ cause = "id"
    /\ Len(rows) = 2
    /\ Atoi(rows[1][1]).ok
    /\ ParseDate(rows[1][2]).ok
    /\ store0 # EmptyBag
    /\ store = store0

ValidHeader(text) ==
    text # <<>> /\ text[1].kind = "rec" /\ Len(text[1].fields) = 4

\* After line i the reader is inside a quoted field that was left open.
RECURSIVE InQuote(_, _)
InQuote(text, i) ==
    IF i < 2 THEN FALSE
    ELSE IF InQuote(text, i - 1) THEN ~HasQuote(text[i])
    ELSE text[i].kind = "openq"

FourFields(text, i) == text[i].kind = "rec" /\ Len(text[i].fields) = 4

Trimmed(fields) == [k \in DOMAIN fields |-> TrimLeft(fields[k])]

\* The 4-field data lines from line i on, in order; whole = FALSE leaves
\* out the lines a quoted field left open runs over.
RECURSIVE DataRows(_, _, _)
DataRows(text, i, whole) ==
    IF i > Len(text) THEN <<>>
    ELSE (IF FourFields(text, i) /\ (whole \/ ~InQuote(text, i - 1))
          THEN <<Trimmed(text[i].fields)>> ELSE <<>>)
            \o DataRows(text, i + 1, whole)

IdsParse(rs) == \A i \in DOMAIN rs : Atoi(rs[i][1]).ok
DatesParse(rs) == \A i \in DOMAIN rs : ParseDate(rs[i][2]).ok

\* A failure of a service the handler calls, not of the text.
Outage(c) == c \in {"db", "s3", "begin", "prepare", "commit", "notify"}

\* C2 as claimed: with a valid header and integer ids in all 4-field lines
\* the run fails for no reason of the text, and the rows added are all the
\* 4-field data lines.
C2_AsClaimed ==
    records > 0 /\ ValidHeader(lines) /\ IdsParse(DataRows(lines, 2, TRUE)) =>
        /\ pc \in {"rollback", "done"} =>
              \/ cause = "none"
              \/ Outage(cause)
              \/ cause = "insert" /\ DatesParse(rows)
        /\ Committed => store = store0 (+) StoredAll(DataRows(lines, 2, TRUE))

\* C2 as amended: the rows handed on are the 4-field data lines that no
\* open quoted field runs over, in order; they are what the commit adds; and
\* when their ids and dates are good the run fails for no reason of the text.
C2_RowsOfTheFile ==
    records > 0 /\ ValidHeader(lines) =>
        /\ rows = DataRows(lines, 2, FALSE)
        /\ pc = "commit" => pending = [i \in DOMAIN rows |-> AsStored(rows[i])]
        /\ Committed => store = store0 (+) StoredAll(DataRows(lines, 2, FALSE))
        /\ pc \in {"rollback", "done"} /\ IdsParse(rows) /\ DatesParse(rows) =>
              cause = "none" \/ Outage(cause) \/ cause = "insert"

\* A line with a bare quote, then a good line: the good line is added.
C2_Witness ==
    /\ LoopDone
    /\ Len(lines) = 3
    /\ lines[2].kind = "bareq"
    /\ FourFields(lines, 3)
    /\ Len(rows) = 1
    /\ store = store0 (+) StoredAll(rows)
    /\ store0 # EmptyBag

\* C7: the summaries a record adds are those of the accounts whose call
\* succeeded; a failing call does not end the range or the run.
C7_FailuresIsolated ==
    records > 0 =>
        /\ Range([i \in DOMAIN ThisRecord |-> ThisRecord[i].Email]) = Range(called) \ failed
        /\ Len(ThisRecord) = Len(called) - Cardinality(failed)
        /\ failed \subseteq Range(called)
        /\ pc = "summarize" => ret = "none"
        /\ LoopDone => Range(called) = emailSet
        /\ failed # {} /\ pc = "done" => cause \in {"none", "notify"}

\* The first account fails, the second is summarized, the run returns nil.
C7_Witness ==
    /\ pc = "done"
    /\ ret = "nil"
    /\ Len(called) = 2
    /\ called[1] \in failed
    /\ called[2] \notin failed
    /\ Len(payload.summaries) = 1

BadHeader(text) == ~ValidHeader(text)

\* C8: an object whose header is missing, unreadable or not of 4 columns
\* ends the run with an error at once: no transaction, the table and the
\* summaries as they were, no account summarized, no notification.
C8_HeaderIsFatal ==
    records > 0 /\ cause # "s3" /\ BadHeader(lines) =>
        /\ pc = "done"
        /\ ret = "err"
        /\ cause = "header"
        /\ ~began
        /\ store = store0
        /\ pending = <<>>
        /\ called = <<>>
        /\ Len(summaries) = sums0
        /\ invoked = 0

C8_Witness ==
    /\ pc = "done"
    /\ cause = "header"
    /\ lines = <<ShortHeaderLine>>
    /\ store # EmptyBag
    /\ store = store0

NoRepeat(seq) == \A i, j \in DOMAIN seq : i # j => seq[i] # seq[j]

\* C9: emailSet is the set of the emails of the batch's rows, and the range
\* calls the aggregation once for each of them and for no other.
C9_OncePerAccount ==
    records > 0 =>
        /\ pc = "commit" \/ Committed => emailSet = { rows[i][4] : i \in DOMAIN rows }
        /\ NoRepeat(called)
        /\ Range(called) \subseteq emailSet
        /\ LoopDone => Range(called) = emailSet
        /\ LoopDone /\ failed = {} =>
              /\ Len(ThisRecord) = Cardinality(emailSet)
              /\ Range([i \in DOMAIN ThisRecord |-> ThisRecord[i].Email]) = emailSet

\* Two rows of one account: one call, one summary.
C9_Witness ==
    /\ pc = "done"
    /\ ret = "nil"
    /\ Len(rows) = 2
    /\ rows[1][4] = rows[2][4]
    /\ Len(called) = 1
    /\ Len(payload.summaries) = 1

OneLeadingSign(t) ==
    /\ t # <<>>
    /\ t[1] \in {"+", "-"}
    /\ Len(t) > 1 => t[2] \notin {"+", "-"}

\* C10 as claimed: every row of the table has an email, a date and an amount
\* written with exactly one leading sign.
C10_StoredRowsWellFormed ==
    \A r \in DOMAIN store :
        /\ r.email # <<>>
        /\ r.m \in 1..12 /\ r.d >= 1
        /\ OneLeadingSign(r.transaction)

\* ------------------------------------------------ several files, one event

\* The steps at which a file of the event makes the handler give up.
FileFailure(c) ==
    c \in {"s3", "header", "begin", "prepare", "columns", "id", "insert", "commit"}

\* C11: the records of one event are taken up one after another, each with
\* a transaction of its own that adds the file's rows at its commit and at
\* no other step; the summaries are handed to the notification Lambda at
\* most once, when the range over the records is over and no file has
\* failed; when a file fails the handler ends with the error and without a
\* hand-off, and no row committed before, for an earlier file, leaves the
\* table.
C11_FilesInTurn ==
    [][ /\ invoked' <= 1
        /\ invoked' > invoked =>
              /\ pc = "record" /\ ret = "none"
              /\ todo = {} /\ pending = <<>>
              /\ payload' = Marshal(summaries)
        /\ store \sqsubseteq store'
        /\ store' # store =>
              /\ pc = "commit" /\ began
              /\ store' = store0 (+) StoredAll(rows)
        /\ (pc' = "done" /\ pc # "done" /\ FileFailure(cause')) =>
              /\ ret' \in {"err", "panic"}
              /\ invoked' = 0
              /\ store' = store0' ]_vars

\* The second file of an event has failed after the first one was committed
\* and summarised.
C11_Witness ==
    /\ pc = "done" /\ ret = "err" /\ FileFailure(cause)
    /\ records = 2
    /\ sums0 > 0
    /\ invoked = 0
    /\ store = store0
    /\ BagCardinality(store) > 0

\* ------------------------------------------------------- the connection

\* getDBConnection has returned a nil error to the running invocation.
GotConnection ==
    pc \in {"record", "begin", "insert", "rollback", "commit", "summarize"}

\* C13: an initialisation that failed, at sql.Open or at db.Ping, is
\* reported by every later call of getDBConnection in the process: whenever
\* a call has returned a nil error the package's db was opened and pinged
\* well, and db.Begin is never called on another one.
C13_FailureIsRemembered ==
    /\ GotConnection => db = "ok"
    /\ began => db = "ok"

\* ----------------------------------------------------------- the row loop

\* C12: the row loop of processCSVFile ends, whatever the object holds and
\* whatever its body does: after finitely many reads the loop has met
\* io.EOF and the rows are returned to the handler.
C12_RowLoopEnds == <>(pc = "begin")

====
